---- MODULE Spec2Model ----
(***************************************************************************)
(* Model of the Slider widget of src/widget/src/slider.rs: the builder     *)
(* (Slider::new and its options), the per-widget State, and on_event with  *)
(* its four closures (locate, increment, decrement, change).               *)
(*                                                                         *)
(* The numeric type T is an unsigned integer type whose largest value is   *)
(* TMax. T -> f64 (Into<f64>) is exact for every such T, so the f64        *)
(* working domain is modelled by exact integer and rational arithmetic;    *)
(* f64 -> T (FromPrimitive::from_f64) is a range check and fails outside   *)
(* 0..TMax. All values of the model are integral, so a difference exceeds  *)
(* f64::EPSILON (2^-52) exactly when it is at least 1.                     *)
(***************************************************************************)
EXTENDS Integers, Sequences, FiniteSets, TLC

\* ------------------------------------------------------------- bounds
\* Largest value of the numeric type T (T is 0..TMax).
TMax == 3
\* Largest step and shift-step the builder is given.
MaxStep == 3
\* Width of the layout bounds handed to on_event (besides the empty width 0).
MaxWidth == 4

\* ------------------------------------------------------------- types
T == 0..TMax

None == <<>>
Some(v) == <<v>>

Point(x, y) == [x |-> x, y |-> y]
Rectangle(x, y, w, h) == [x |-> x, y |-> y, width |-> w, height |-> h]

\* mouse::Cursor: Available(Point) or Unavailable.
Unavailable == [available |-> FALSE, position |-> Point(0, 0)]
Available(p) == [available |-> TRUE, position |-> p]

\* keyboard::Modifiers, reduced to the two bits on_event reads.
Modifiers == [shift : BOOLEAN, command : BOOLEAN]
NoModifiers == [shift |-> FALSE, command |-> FALSE]

\* Messages handed to the shell.
on_change(v) == <<"on_change", v>>
OnReleaseMessage == <<"on_release">>

\* ------------------------------------------------------------- state
VARIABLES
    range,        \* self.range: [start, end]
    step,         \* self.step
    shift_step,   \* self.shift_step: Option<T>
    value,        \* self.value
    default,      \* self.default: Option<T>
    on_release,   \* self.on_release: Option<Message>
    bounds,       \* layout.bounds()
    state,        \* tree.state: State {is_dragging, keyboard_modifiers}
    cursor,       \* the mouse::Cursor the runtime hands to on_event
    shell,        \* messages the on_event call of this cycle published
    status,       \* event::Status the on_event call of this cycle returned
    gesture,      \* the press, move, release sequence under way, when recorded
    given,        \* the value argument of Slider::new, while the builder runs
    quads,        \* the fill_quad calls draw made on the renderer this cycle
    history       \* the on_change messages the application received, when kept

config == <<range, step, shift_step, default, on_release, bounds, given>>
vars == <<range, step, shift_step, value, default, on_release, bounds, state,
          cursor, shell, status, gesture, given, quads, history>>

\* ------------------------------------------------------------- inputs
\* An event: its kind, the key of a KeyPressed and the modifiers of a
\* ModifiersChanged.
Event(kind, key, modifiers) ==
    [kind |-> kind, key |-> key, modifiers |-> modifiers]

PressKinds == {"Mouse::ButtonPressed(Left)", "Touch::FingerPressed"}
ReleaseKinds ==
    {"Mouse::ButtonReleased(Left)", "Touch::FingerLifted", "Touch::FingerLost"}
MoveKinds == {"Mouse::CursorMoved", "Touch::FingerMoved"}
\* Kinds no arm of the match names: another button, the wheel.
OtherKinds == {"Mouse::ButtonPressed(Right)", "Mouse::WheelScrolled"}
Keys == {"ArrowUp", "ArrowDown", "Enter"}

PressEvents == {Event(k, "-", NoModifiers) : k \in PressKinds}
ReleaseEvents == {Event(k, "-", NoModifiers) : k \in ReleaseKinds}
MoveEvents == {Event(k, "-", NoModifiers) : k \in MoveKinds}
KeyEvents == {Event("Keyboard::KeyPressed", k, NoModifiers) : k \in Keys}
ModifiersEvents ==
    {Event("Keyboard::ModifiersChanged", "-", m) : m \in Modifiers}
OtherEvents == {Event(k, "-", NoModifiers) : k \in OtherKinds}
Events ==
    PressEvents \cup ReleaseEvents \cup MoveEvents \cup KeyEvents
        \cup ModifiersEvents \cup OtherEvents

\* The bounds start at x = 1, y = 0 and are one unit high; the cursor is
\* unavailable or at a point from the left edge of the bounds to the right edge
\* of the widest bounds, on the bounds' row or on the row below it.
Cursors ==
    {Unavailable} \cup
    {Available(Point(x, y)) : x \in 1..(MaxWidth + 1), y \in 0..1}
Layouts == {Rectangle(1, 0, w, 1) : w \in {0, MaxWidth}}

\* ------------------------------------------------------------- helpers
Abs(x) == IF x < 0 THEN -x ELSE x

\* f64::round of the rational n / d (d > 0): to the nearest integer, halves
\* away from zero.
Round(n, d) ==
    IF n >= 0 THEN (2 * n + d) \div (2 * d)
    ELSE -((2 * (-n) + d) \div (2 * d))

\* T::from_f64 of an integral f64: Some when T can hold it.
from_f64(v) == IF v \in T THEN Some(v) ELSE None

\* Rectangle::contains: half-open on the right and at the bottom.
contains(r, p) ==
    /\ r.x <= p.x
    /\ p.x < r.x + r.width
    /\ r.y <= p.y
    /\ p.y < r.y + r.height

\* Cursor::position and Cursor::position_over.
position(c) == IF c.available THEN Some(c.position) ELSE None
position_over(c, r) ==
    IF c.available /\ contains(r, c.position) THEN Some(c.position) ELSE None

\* ------------------------------------------------------------- builder
\* Seeded fault: a constructor that clamps at the start of the range only.
new_lower_only(r, v) ==
    IF v >= r.start THEN v ELSE r.start

\* Slider::new: the value clamped into the range.
new(r, v) ==
    LET v1 == IF v >= r.start THEN v ELSE r.start
        v2 == IF v1 <= r.end THEN v1 ELSE r.end
    IN v2

\* A slider as the builder leaves it (new, then step, shift_step, default and
\* on_release, each optional; the shift-step unset, the finest or the
\* coarsest; the default unset, the least or the greatest value of T), its
\* State::default(), and the first cycle's cursor.
Built ==
    /\ range \in {[start |-> s, end |-> e] : s \in T, e \in T}
    /\ range.start <= range.end
    /\ step \in 1..MaxStep
    /\ shift_step \in {None, Some(1), Some(MaxStep)}
    /\ \E v \in T : value = new(range, v)
    /\ given = None
    /\ quads = <<>>
    /\ default \in {None, Some(0), Some(TMax)}
    /\ on_release \in {None, Some(OnReleaseMessage)}
    /\ bounds \in Layouts
    /\ state = [is_dragging |-> FALSE, keyboard_modifiers |-> NoModifiers]
    /\ shell = <<>>
    /\ status = "None"
    /\ cursor \in Cursors

Init ==
    /\ Built
    /\ gesture = [recording |-> FALSE, calls |-> <<>>]
    /\ history = None

\* ------------------------------------------------------------- builder calls
\* The builder as a state machine of its own. Before the call of Slider::new
\* its arguments are chosen: the range (start <= end) and the value, which
\* `given` keeps; no slider exists yet.
InitNew ==
    /\ range \in {[start |-> s, end |-> e] : s \in T, e \in T}
    /\ range.start <= range.end
    /\ given \in {Some(v) : v \in T}
    /\ value = given[1]
    /\ step = 1
    /\ shift_step = None
    /\ default = None
    /\ on_release = None
    /\ bounds = Rectangle(1, 0, MaxWidth, 1)
    /\ state = [is_dragging |-> FALSE, keyboard_modifiers |-> NoModifiers]
    /\ shell = <<>>
    /\ status = "Unbuilt"
    /\ cursor = Unavailable
    /\ gesture = [recording |-> FALSE, calls |-> <<>>]
    /\ quads = <<>>
    /\ history = None

\* Slider::new(range, value, on_change)
Slider_new ==
    /\ status = "Unbuilt"
    /\ value' = new(range, given[1])
    /\ default' = None
    /\ step' = 1
    /\ shift_step' = None
    /\ on_release' = None
    /\ status' = "None"
    /\ UNCHANGED <<range, given, bounds, state, cursor, shell, gesture, quads,
                   history>>

\* What the builder methods leave alone.
BuilderFrame == UNCHANGED <<range, value, given, bounds, state, cursor, shell,
                            status, gesture, quads, history>>

\* Slider::default(default): stored as given, not clamped.
Slider_default(d) ==
    /\ status = "None"
    /\ default' = Some(d)
    /\ UNCHANGED <<step, shift_step, on_release>>
    /\ BuilderFrame

\* Slider::on_release(on_release)
Slider_on_release ==
    /\ status = "None"
    /\ on_release' = Some(OnReleaseMessage)
    /\ UNCHANGED <<step, shift_step, default>>
    /\ BuilderFrame

\* Slider::step(step)
Slider_step(s) ==
    /\ status = "None"
    /\ step' = s
    /\ UNCHANGED <<shift_step, default, on_release>>
    /\ BuilderFrame

\* Slider::shift_step(shift_step)
Slider_shift_step(s) ==
    /\ status = "None"
    /\ shift_step' = Some(s)
    /\ UNCHANGED <<step, default, on_release>>
    /\ BuilderFrame

NextNew ==
    \/ Slider_new
    \/ \E d \in {0, TMax} : Slider_default(d)
    \/ Slider_on_release
    \/ \E s \in 1..MaxStep : Slider_step(s)
    \/ \E s \in {1, MaxStep} : Slider_shift_step(s)

SpecNew == InitNew /\ [][NextNew]_vars

\* ------------------------------------------------------------- closures
\* The step in force: the shift-step while shift is held and one is set.
\* Seeded fault: the shift-step in force whenever one is set, shift held or
\* not.
ActiveStep_ignores_shift ==
    IF shift_step # None THEN shift_step[1] ELSE step

ActiveStep ==
    IF state.keyboard_modifiers.shift
    THEN (IF shift_step # None THEN shift_step[1] ELSE step)
    ELSE step

\* Seeded fault: locate with a strict comparison at the right edge.
locate_strict_right(cursor_position) ==
    IF cursor_position.x <= bounds.x THEN Some(range.start)
    ELSE IF cursor_position.x > bounds.x + bounds.width THEN Some(range.end)
    ELSE LET steps == Round((cursor_position.x - bounds.x)
                                * (range.end - range.start),
                            bounds.width * ActiveStep)
         IN from_f64(steps * ActiveStep + range.start)

locate(cursor_position) ==
    IF cursor_position.x <= bounds.x THEN Some(range.start)
    ELSE IF cursor_position.x >= bounds.x + bounds.width THEN Some(range.end)
    ELSE LET steps == Round((cursor_position.x - bounds.x)
                                * (range.end - range.start),
                            bounds.width * ActiveStep)
         IN from_f64(steps * ActiveStep + range.start)

\* Seeded fault: increment without the clamp to range.end.
increment_no_clamp(v) ==
    LET steps == Round(v, ActiveStep)
    IN from_f64(ActiveStep * (steps + 1))

increment(v) ==
    LET steps == Round(v, ActiveStep)
        new_value == ActiveStep * (steps + 1)
    IN IF new_value > range.end THEN Some(range.end) ELSE from_f64(new_value)

decrement(v) ==
    LET steps == Round(v, ActiveStep)
        new_value == ActiveStep * (steps - 1)
    IN IF new_value < range.start THEN Some(range.start)
       ELSE from_f64(new_value)

\* Seeded fault: change without the comparison with the stored value.
change_unconditional(new_value) ==
    [shell |-> <<on_change(new_value)>>, value |-> new_value]

\* Seeded fault: change stores the new value without publishing it.
change_silent(new_value) ==
    IF Abs(value - new_value) >= 1
    THEN [shell |-> <<>>, value |-> new_value]
    ELSE [shell |-> <<>>, value |-> value]

\* change: what it publishes and the value it leaves stored.
change(new_value) ==
    IF Abs(value - new_value) >= 1
    THEN [shell |-> <<on_change(new_value)>>, value |-> new_value]
    ELSE [shell |-> <<>>, value |-> value]

\* Seeded fault: a None option stores range.start instead of being dropped.
map_change_or_start(option) ==
    IF option # None THEN change(option[1]) ELSE change(range.start)

\* option.map(change)
map_change(option) ==
    IF option # None THEN change(option[1])
    ELSE [shell |-> <<>>, value |-> value]

\* ------------------------------------------------------------- on_event
Return(s) == status' = s

\* The record of one on_event call: the value stored when it was made and
\* what it published.
Call(published) == [before |-> value, shell |-> published]

\* The recorder of press, move, release sequences. A press that leaves the
\* slider dragging begins a sequence; a move made next and a release made after
\* that move extend it; any other call ends it.
Track(e, published, dragging) ==
    IF ~gesture.recording THEN gesture
    ELSE IF e.kind \in PressKinds /\ dragging /\ status' = "Captured"
    THEN [gesture EXCEPT !.calls = <<Call(published)>>]
    ELSE IF e.kind \in MoveKinds /\ Len(gesture.calls) = 1
    THEN [gesture EXCEPT !.calls = Append(@, Call(published))]
    ELSE IF e.kind \in ReleaseKinds /\ Len(gesture.calls) = 2
    THEN [gesture EXCEPT !.calls = Append(@, Call(published))]
    ELSE [gesture EXCEPT !.calls = <<>>]

\* The messages of `published` that are on_change messages, by index.
Changes(published) ==
    {i \in 1..Len(published) : published[i][1] = "on_change"}

\* The application's record of the on_change messages it received: the shell
\* hands it what the call published, and the payload of the last on_change
\* among them replaces the one it kept.
Receive(published) ==
    IF history = None \/ Changes(published) = {} THEN history
    ELSE [history EXCEPT
              !.last = Some(published[CHOOSE i \in Changes(published) :
                                \A j \in Changes(published) : j <= i][2])]

\* What every arm shares: the runtime calls on_event once per cycle, the
\* configuration and the cursor are only read, and the recorder and the
\* application see the call.
Handled(e) ==
    /\ UNCHANGED <<config, cursor, quads>>
    /\ gesture' = Track(e, shell', state'.is_dragging)
    /\ history' = Receive(shell')

\* Seeded fault: a reset press that starts a drag like any other press.
Pressed_reset_drags(e) ==
    /\ status = "None"
    /\ e.kind \in PressKinds
    /\ IF position_over(cursor, bounds) # None
       THEN /\ IF state.keyboard_modifiers.command
               THEN /\ value' = map_change(default).value
                    /\ shell' = map_change(default).shell
               ELSE /\ value' = map_change(locate(cursor.position)).value
                    /\ shell' = map_change(locate(cursor.position)).shell
            /\ state' = [state EXCEPT !.is_dragging = TRUE]
            /\ Return("Captured")
       ELSE /\ UNCHANGED <<value, state>>
            /\ shell' = <<>>
            /\ Return("Ignored")
    /\ Handled(e)

Pressed(e) ==
    /\ status = "None"
    /\ e.kind \in PressKinds
    /\ IF position_over(cursor, bounds) # None
       THEN /\ IF state.keyboard_modifiers.command
               THEN /\ value' = map_change(default).value
                    /\ shell' = map_change(default).shell
                    /\ state' = [state EXCEPT !.is_dragging = FALSE]
               ELSE /\ value' = map_change(locate(cursor.position)).value
                    /\ shell' = map_change(locate(cursor.position)).shell
                    /\ state' = [state EXCEPT !.is_dragging = TRUE]
            /\ Return("Captured")
       ELSE /\ UNCHANGED <<value, state>>
            /\ shell' = <<>>
            /\ Return("Ignored")
    /\ Handled(e)

\* Seeded fault: a release that never publishes the on-release message.
Released_silent(e) ==
    /\ status = "None"
    /\ e.kind \in ReleaseKinds
    /\ IF state.is_dragging
       THEN /\ shell' = <<>>
            /\ state' = [state EXCEPT !.is_dragging = FALSE]
            /\ Return("Captured")
       ELSE /\ shell' = <<>>
            /\ UNCHANGED state
            /\ Return("Ignored")
    /\ UNCHANGED value
    /\ Handled(e)

\* Seeded fault: a release that publishes the on-release message whether or
\* not a drag is under way.
Released_when_idle(e) ==
    /\ status = "None"
    /\ e.kind \in ReleaseKinds
    /\ shell' = (IF on_release # None THEN <<on_release[1]>> ELSE <<>>)
    /\ IF state.is_dragging
       THEN /\ state' = [state EXCEPT !.is_dragging = FALSE]
            /\ Return("Captured")
       ELSE /\ UNCHANGED state
            /\ Return("Ignored")
    /\ UNCHANGED value
    /\ Handled(e)

Released(e) ==
    /\ status = "None"
    /\ e.kind \in ReleaseKinds
    /\ IF state.is_dragging
       THEN /\ shell' = (IF on_release # None THEN <<on_release[1]>> ELSE <<>>)
            /\ state' = [state EXCEPT !.is_dragging = FALSE]
            /\ Return("Captured")
       ELSE /\ shell' = <<>>
            /\ UNCHANGED state
            /\ Return("Ignored")
    /\ UNCHANGED value
    /\ Handled(e)

\* Seeded fault: a move honoured only while the cursor is over the bounds.
Moved_over_only(e) ==
    /\ status = "None"
    /\ e.kind \in MoveKinds
    /\ IF state.is_dragging /\ position_over(cursor, bounds) # None
       THEN LET r == map_change(locate(cursor.position))
            IN /\ value' = r.value
               /\ shell' = r.shell
               /\ Return("Captured")
       ELSE /\ UNCHANGED value
            /\ shell' = <<>>
            /\ Return("Ignored")
    /\ UNCHANGED state
    /\ Handled(e)

Moved(e) ==
    /\ status = "None"
    /\ e.kind \in MoveKinds
    /\ IF state.is_dragging
       THEN LET r == IF position(cursor) # None
                     THEN map_change(locate(position(cursor)[1]))
                     ELSE map_change(None)
            IN /\ value' = r.value
               /\ shell' = r.shell
               /\ Return("Captured")
       ELSE /\ UNCHANGED value
            /\ shell' = <<>>
            /\ Return("Ignored")
    /\ UNCHANGED state
    /\ Handled(e)

\* Seeded fault: an Up arrow that steps and publishes twice.
KeyPressed_twice(e) ==
    /\ status = "None"
    /\ e.kind = "Keyboard::KeyPressed"
    /\ IF position_over(cursor, bounds) # None
       THEN LET r == CASE e.key = "ArrowUp" -> map_change(increment(value))
                       [] e.key = "ArrowDown" -> map_change(decrement(value))
                       [] OTHER -> map_change(None)
            IN /\ value' = r.value
               /\ shell' = (IF e.key = "ArrowUp" THEN r.shell \o r.shell
                            ELSE r.shell)
               /\ Return("Captured")
       ELSE /\ UNCHANGED value
            /\ shell' = <<>>
            /\ Return("Ignored")
    /\ UNCHANGED state
    /\ Handled(e)

KeyPressed(e) ==
    /\ status = "None"
    /\ e.kind = "Keyboard::KeyPressed"
    /\ IF position_over(cursor, bounds) # None
       THEN LET r == CASE e.key = "ArrowUp" -> map_change(increment(value))
                       [] e.key = "ArrowDown" -> map_change(decrement(value))
                       [] OTHER -> map_change(None)
            IN /\ value' = r.value
               /\ shell' = r.shell
               /\ Return("Captured")
       ELSE /\ UNCHANGED value
            /\ shell' = <<>>
            /\ Return("Ignored")
    /\ UNCHANGED state
    /\ Handled(e)

\* Seeded fault: a modifiers change that returns Captured.
ModifiersChanged_captured(e) ==
    /\ status = "None"
    /\ e.kind = "Keyboard::ModifiersChanged"
    /\ state' = [state EXCEPT !.keyboard_modifiers = e.modifiers]
    /\ shell' = <<>>
    /\ Return("Captured")
    /\ UNCHANGED value
    /\ Handled(e)

\* Seeded fault: a modifiers change that replaces the whole State.
ModifiersChanged_resets_state(e) ==
    /\ status = "None"
    /\ e.kind = "Keyboard::ModifiersChanged"
    /\ state' = [is_dragging |-> FALSE, keyboard_modifiers |-> e.modifiers]
    /\ shell' = <<>>
    /\ Return("Ignored")
    /\ UNCHANGED value
    /\ Handled(e)

ModifiersChanged(e) ==
    /\ status = "None"
    /\ e.kind = "Keyboard::ModifiersChanged"
    /\ state' = [state EXCEPT !.keyboard_modifiers = e.modifiers]
    /\ shell' = <<>>
    /\ Return("Ignored")
    /\ UNCHANGED value
    /\ Handled(e)

Unmatched(e) ==
    /\ status = "None"
    /\ e.kind \in OtherKinds
    /\ shell' = <<>>
    /\ Return("Ignored")
    /\ UNCHANGED <<value, state>>
    /\ Handled(e)

on_event(e) ==
    \/ Pressed(e)
    \/ Released(e)
    \/ Moved(e)
    \/ KeyPressed(e)
    \/ ModifiersChanged(e)
    \/ Unmatched(e)

\* Seeded fault: a cursor that leaves the bounds cancels the drag.
cursor_update_cancels(c) ==
    /\ status # "None"
    /\ cursor' = c
    /\ shell' = <<>>
    /\ status' = "None"
    /\ state' = [state EXCEPT
                     !.is_dragging = @ /\ position_over(c, bounds) # None]
    /\ quads' = <<>>
    /\ UNCHANGED <<value, config, gesture, history>>

\* The runtime starts a cycle: it has drained the shell, cleared the frame
\* and fetched the cursor, which it hands to the on_event call of the cycle.
cursor_update(c) ==
    /\ status # "None"
    /\ cursor' = c
    /\ shell' = <<>>
    /\ status' = "None"
    /\ quads' = <<>>
    /\ UNCHANGED <<value, state, config, gesture, history>>

Next ==
    \/ \E c \in Cursors : cursor_update(c)
    \/ \E e \in Events : on_event(e)

Spec == Init /\ [][Next]_vars

\* The slider without a default, with the recorder of press, move, release
\* sequences on.
InitGesture ==
    /\ Built
    /\ default = None
    /\ gesture = [recording |-> TRUE, calls |-> <<>>]
    /\ history = None

SpecGesture == InitGesture /\ [][Next]_vars

\* The slider with the application's record of on_change messages kept: the
\* value set at construction, and no message received yet.
InitHistory ==
    /\ Built
    /\ gesture = [recording |-> FALSE, calls |-> <<>>]
    /\ history = [constructed |-> value, last |-> None]

SpecHistory == InitHistory /\ [][Next]_vars

\* ------------------------------------------------------------- draw
\* The handle widths the style gives draw (Circle: radius * 2, Rectangle:
\* width).
HandleWidths == {1, 2}

\* The f32 quantities of draw are exact rationals here: a numerator n over a
\* denominator d; d = 0 is a division by zero.

\* Seeded fault: the offset without the branch for start >= end.
offset_unguarded(handle_width) ==
    [n |-> (bounds.width - handle_width) * (value - range.start),
     d |-> range.end - range.start]

\* let offset = if range_start >= range_end { 0.0 } else { ... }
offset(handle_width) ==
    IF range.start >= range.end THEN [n |-> 0, d |-> 1]
    ELSE [n |-> (bounds.width - handle_width) * (value - range.start),
          d |-> range.end - range.start]

\* A renderer::Quad and its fill, by its horizontal extent: x and width are
\* numerators over d.
Quad(x, width, d, fill) == [x |-> x, width |-> width, d |-> d, fill |-> fill]

\* Seeded fault: the handle filled before the second rail segment.
fill_quads_handle_second(handle_width) ==
    LET o == offset(handle_width)
        d == 2 * o.d
        left == bounds.x * d
        center == left + 2 * o.n + handle_width * o.d
    IN << Quad(left, 2 * o.n + handle_width * o.d, d, "rail.colors.0"),
          Quad(left + 2 * o.n, handle_width * d, d, "handle.color"),
          Quad(center, bounds.width * d - 2 * o.n - handle_width * o.d, d,
               "rail.colors.1") >>

\* What draw hands to renderer.fill_quad, in order, with every length over
\* the denominator 2 * offset.d (handle_width / 2.0 is exact then).
fill_quads(handle_width) ==
    LET o == offset(handle_width)
        d == 2 * o.d
        left == bounds.x * d
        center == left + 2 * o.n + handle_width * o.d
    IN << Quad(left, 2 * o.n + handle_width * o.d, d, "rail.colors.0"),
          Quad(center, bounds.width * d - 2 * o.n - handle_width * o.d, d,
               "rail.colors.1"),
          Quad(left + 2 * o.n, handle_width * d, d, "handle.color") >>

\* Slider::draw, once per cycle after the on_event call: it reads the slider
\* and the layout and writes the renderer only.
draw(handle_width) ==
    /\ status # "None"
    /\ quads = <<>>
    /\ quads' = fill_quads(handle_width)
    /\ UNCHANGED <<value, state, config, cursor, shell, status, gesture,
                   history>>

NextDraw ==
    \/ Next
    \/ \E handle_width \in HandleWidths : draw(handle_width)

SpecDraw == Init /\ [][NextDraw]_vars

\* ------------------------------------------------------------- claims
Over == position_over(cursor, bounds) # None
Dragging == state.is_dragging
Command == state.keyboard_modifiers.command
InRange(v) == range.start <= v /\ v <= range.end

\* The events whose arms call a quantizer and change.
ChangeEvents == PressEvents \cup MoveEvents \cup KeyEvents

\* The option on_event maps change over while handling e in the current state:
\* None when the quantizer yields None or e makes no call of change.
ChangeCalledWith(e) ==
    IF e.kind \in PressKinds /\ Over
    THEN (IF Command THEN default ELSE locate(cursor.position))
    ELSE IF e.kind \in MoveKinds /\ Dragging /\ cursor.available
    THEN locate(cursor.position)
    ELSE IF e.kind = "Keyboard::KeyPressed" /\ Over /\ e.key = "ArrowUp"
    THEN increment(value)
    ELSE IF e.kind = "Keyboard::KeyPressed" /\ Over /\ e.key = "ArrowDown"
    THEN decrement(value)
    ELSE None

\* The step published on_change(new_value) and stored new_value if new_value
\* differs from the stored value, and published and stored nothing otherwise.
ChangedIffDiffers(new_value) ==
    IF Abs(new_value - value) > 0
    THEN shell' = <<on_change(new_value)>> /\ value' = new_value
    ELSE shell' = <<>> /\ value' = value

\* C1: every event that on_event handles by calling change(new_value)
\* publishes on_change(new_value) and stores new_value exactly when new_value
\* differs from the stored value (by more than epsilon: the values are
\* integral); otherwise it publishes nothing and the stored value stays.
C1_ChangeIffDiffers ==
    [][status = "None" =>
          \A e \in ChangeEvents :
              \/ ChangeCalledWith(e) = None
              \/ ChangedIffDiffers(ChangeCalledWith(e)[1])
              \/ ~on_event(e)]_vars

\* C1 witness: a call has published on_change and stored the value it carries.
C1_Witness ==
    /\ status = "Captured"
    /\ shell = <<on_change(value)>>

\* The calls of a complete press, move, release sequence.
Complete == Len(gesture.calls) = 3
\* The value stored after the i-th call of the sequence.
After(i) ==
    IF i < Len(gesture.calls) THEN gesture.calls[i + 1].before ELSE value
\* The i-th call published one on_change carrying the value it stored, which
\* differs from the value stored before it.
OneChange(i) ==
    /\ gesture.calls[i].shell = <<on_change(After(i))>>
    /\ After(i) # gesture.calls[i].before
\* The i-th call published nothing and stored nothing.
NoChange(i) ==
    /\ gesture.calls[i].shell = <<>>
    /\ After(i) = gesture.calls[i].before
\* The release published the on-release message if one is configured, and
\* nothing otherwise.
ReleasePublished(i) ==
    /\ gesture.calls[i].shell =
           (IF on_release # None THEN <<OnReleaseMessage>> ELSE <<>>)
    /\ After(i) = gesture.calls[i].before

\* C2 as stated: a press inside the bounds, a move while dragging and a release
\* publish, in this order, one on_change from the press, zero or more on_change
\* from the move (only if the value changed) and the on-release message if one
\* is configured.
C2_PressAlwaysPublishes ==
    Complete =>
        /\ OneChange(1)
        /\ (OneChange(2) \/ NoChange(2))
        /\ ReleasePublished(3)

\* C2 amended: the press publishes at most one on_change, and only if the value
\* it located differs from the stored value; then the move publishes at most
\* one on_change, only if the value changed; then the release publishes the
\* on-release message if one is configured.
C2_PressMoveRelease ==
    Complete =>
        /\ (OneChange(1) \/ NoChange(1))
        /\ (OneChange(2) \/ NoChange(2))
        /\ ReleasePublished(3)

\* C2 witness: a complete sequence in which the press, the move and the release
\* each published a message.
C2_Witness ==
    /\ Complete
    /\ OneChange(1)
    /\ OneChange(2)
    /\ gesture.calls[3].shell = <<OnReleaseMessage>>

\* The rows of the transition table.
PressRow(e) == e.kind \in PressKinds /\ Over
ReleaseRow(e) == e.kind \in ReleaseKinds /\ Dragging
MoveRow(e) == e.kind \in MoveKinds /\ Dragging
ArrowRow(e) ==
    /\ e.kind = "Keyboard::KeyPressed"
    /\ e.key \in {"ArrowUp", "ArrowDown"}
    /\ Over
ModifiersRow(e) == e.kind = "Keyboard::ModifiersChanged"
Matched(e) ==
    PressRow(e) \/ ReleaseRow(e) \/ MoveRow(e) \/ ArrowRow(e) \/ ModifiersRow(e)

\* C3 as stated: every event that matches a row of the transition table, the
\* modifier-state-changed row included, makes on_event return Captured.
C3_EveryRowCaptured ==
    [][status = "None" =>
          \A e \in Events :
              \/ ~Matched(e)
              \/ status' = "Captured"
              \/ ~on_event(e)]_vars

\* C3 amended: every event that matches a row of the transition table makes
\* on_event return Captured, except a modifier-state-changed event, which
\* makes it return Ignored.
C3_RowsCaptured ==
    [][status = "None" =>
          \A e \in Events :
              \/ ~Matched(e)
              \/ status' = (IF ModifiersRow(e) THEN "Ignored" ELSE "Captured")
              \/ ~on_event(e)]_vars

\* C3 witness: an arrow key pressed over the bounds was captured (nothing
\* else publishes on_change without dragging and without the reset modifier).
C3_Witness ==
    /\ status = "Captured"
    /\ ~Dragging
    /\ ~Command
    /\ shell = <<on_change(value)>>

\* C4: every event that matches no row of the transition table makes on_event
\* return Ignored, a key other than the arrows pressed over the bounds
\* included.
C4_NoRowIgnored ==
    [][status = "None" =>
          \A e \in Events :
              \/ Matched(e)
              \/ status' = "Ignored"
              \/ ~on_event(e)]_vars

\* C5 as stated: is_dragging changes from true to false only while a
\* primary-button-up, touch-lift or touch-lost event is handled.
C5_OnlyReleaseEndsDrag ==
    [][(Dragging /\ ~state'.is_dragging) =>
          \A e \in Events : e.kind \in ReleaseKinds \/ ~on_event(e)]_vars

\* C5 amended: is_dragging changes from true to false only while a
\* primary-button-up, touch-lift or touch-lost event is handled, or a press
\* inside the bounds with the reset modifier held; no move, key-down, modifier
\* change or change of the cursor ends a drag.
C5_ReleaseOrResetEndsDrag ==
    [][(Dragging /\ ~state'.is_dragging) =>
          /\ ~(\E c \in Cursors : cursor_update(c))
          /\ \A e \in Events :
                 \/ e.kind \in ReleaseKinds
                 \/ (PressRow(e) /\ Command)
                 \/ ~on_event(e)]_vars

\* C5 witness: a release has ended a drag (only a release publishes the
\* on-release message, and only while dragging).
C5_Witness ==
    /\ status = "Captured"
    /\ ~Dragging
    /\ shell = <<OnReleaseMessage>>

\* The quantizer call on_event makes for e yields None: locate for a press
\* inside the bounds without the reset modifier and for a move while dragging,
\* increment or decrement for an arrow key pressed over the bounds.
QuantizerFails(e) ==
    \/ PressRow(e) /\ ~Command /\ locate(cursor.position) = None
    \/ MoveRow(e) /\ cursor.available /\ locate(cursor.position) = None
    \/ ArrowRow(e) /\ e.key = "ArrowUp" /\ increment(value) = None
    \/ ArrowRow(e) /\ e.key = "ArrowDown" /\ decrement(value) = None

\* C6 as stated: when locate, increment or decrement yields None, handling the
\* event publishes nothing and leaves the stored value, is_dragging and the
\* stored modifier set as they were.
C6_NoneMutatesNothing ==
    [][status = "None" =>
          \A e \in ChangeEvents :
              \/ ~QuantizerFails(e)
              \/ (shell' = <<>> /\ value' = value /\ state' = state)
              \/ ~on_event(e)]_vars

\* C6 amended: when locate, increment or decrement yields None, handling the
\* event publishes nothing and leaves the stored value and the stored modifier
\* set as they were; is_dragging stays as it was too, except that a press
\* still begins the drag.
C6_NoneDropsChange ==
    [][status = "None" =>
          \A e \in ChangeEvents :
              \/ ~QuantizerFails(e)
              \/ /\ shell' = <<>>
                 /\ value' = value
                 /\ state'.keyboard_modifiers = state.keyboard_modifiers
                 /\ state'.is_dragging = (Dragging \/ e.kind \in PressKinds)
              \/ ~on_event(e)]_vars

\* C6 witness: a move while dragging, with the cursor below the bounds at an x
\* where locate yields None, was captured and published nothing (with the
\* cursor outside the bounds only a move is captured and leaves the slider
\* dragging).
C6_Witness ==
    /\ status = "Captured"
    /\ Dragging
    /\ cursor.available
    /\ ~Over
    /\ locate(cursor.position) = None
    /\ shell = <<>>

InRangeOption(option) == option = None \/ InRange(option[1])

\* C7: for every stored value the slider can hold and every positive step,
\* increment and decrement never produce a value outside [start, end].
C7_StepsStayInRange ==
    /\ InRangeOption(increment(value))
    /\ InRangeOption(decrement(value))

\* The Up-arrow key-down.
UpArrow == Event("Keyboard::KeyPressed", "ArrowUp", NoModifiers)

\* C8: an Up-arrow key-down with the pointer over the bounds raises a stored
\* value below end without passing end, and brings a stored value at or above
\* end to end; at end it stores end again and publishes nothing. The values
\* being bounded by end, repeated Up-arrow key-downs reach end and stay there.
C8_UpArrowReachesEnd ==
    [][(status = "None" /\ Over) =>
          \/ /\ (value < range.end) => (value < value' /\ value' <= range.end)
             /\ (value >= range.end) => (value' = range.end)
             /\ (value = range.end) => (shell' = <<>>)
          \/ ~on_event(UpArrow)]_vars

\* C8 witness: a key pressed over the bounds has brought the stored value to
\* end from another value.
C8_Witness ==
    /\ status = "Captured"
    /\ Over
    /\ ~Dragging
    /\ ~Command
    /\ range.start < range.end
    /\ value = range.end
    /\ shell = <<on_change(range.end)>>

\* The cursor is strictly inside the bounds horizontally.
StrictlyInside ==
    /\ cursor.available
    /\ bounds.x < cursor.position.x
    /\ cursor.position.x < bounds.x + bounds.width

\* C9: for every pointer x strictly inside the bounds, every range with
\* start <= end and every positive active step, the value locate returns is a
\* multiple of the active step and lies within [start, end].
C9_LocateOnGridInRange ==
    (StrictlyInside /\ locate(cursor.position) # None) =>
        /\ locate(cursor.position)[1] % ActiveStep = 0
        /\ InRange(locate(cursor.position)[1])

\* The step stored and published the value locate gives for the cursor if
\* there is one and it differs from the stored value, and stored and published
\* nothing otherwise.
Followed(located) ==
    IF located # None /\ located[1] # value
    THEN value' = located[1] /\ shell' = <<on_change(located[1])>>
    ELSE value' = value /\ shell' = <<>>

\* C10: while is_dragging is true every pointer-move or touch-move event is
\* captured, leaves is_dragging true and, wherever the cursor is, stores and
\* publishes the value locate gives for it if that value differs from the
\* stored one; a change of the cursor never clears is_dragging.
C10_DragFollowsCursor ==
    [][Dragging =>
          /\ (\E c \in Cursors : cursor_update(c)) => state'.is_dragging
          /\ (status = "None") =>
                 \A e \in MoveEvents :
                     \/ /\ status' = "Captured"
                        /\ state' = state
                        /\ cursor.available => Followed(locate(cursor.position))
                     \/ ~on_event(e)]_vars

\* C10 witness: a move with the cursor outside the bounds was captured while
\* dragging and changed the stored value (outside the bounds only a move is
\* captured and leaves the slider dragging).
C10_Witness ==
    /\ status = "Captured"
    /\ Dragging
    /\ cursor.available
    /\ ~Over
    /\ shell = <<on_change(value)>>


\* The step restored the default: it stored and published it if one is set
\* and differs from the stored value, and stored and published nothing
\* otherwise.
Restored ==
    IF default # None /\ default[1] # value
    THEN value' = default[1] /\ shell' = <<on_change(default[1])>>
    ELSE value' = value /\ shell' = <<>>

\* C11: a press inside the bounds with the reset modifier held is captured
\* and leaves is_dragging false; it stores the default if one is set
\* (publishing on_change only if it differs from the stored value) and stores
\* and publishes nothing if none is set, wherever in the bounds the cursor is.
C11_ResetPress ==
    [][(status = "None" /\ Over /\ Command) =>
          \A e \in PressEvents :
              \/ /\ status' = "Captured"
                 /\ ~state'.is_dragging
                 /\ state'.keyboard_modifiers = state.keyboard_modifiers
                 /\ Restored
              \/ ~on_event(e)]_vars

\* C11 witness: a reset press has stored and published a default that lies
\* above the range (no arrow key stores a value above end, and a press or a
\* move that locates one leaves the slider dragging).
C11_Witness ==
    /\ status = "Captured"
    /\ Command
    /\ ~Dragging
    /\ default # None
    /\ default[1] > range.end
    /\ value = default[1]
    /\ shell = <<on_change(value)>>


\* C12: a release handled while dragging publishes the on-release message
\* if one is configured (and nothing otherwise) and leaves is_dragging false
\* and the stored value as it was; a release handled while not dragging
\* publishes nothing and changes no state; and no other step publishes the
\* on-release message.
C12_OnReleaseExactlyWhen ==
    [][status = "None" =>
          /\ \A e \in ReleaseEvents :
                 \/ IF Dragging
                    THEN /\ shell' = (IF on_release # None
                                      THEN <<OnReleaseMessage>> ELSE <<>>)
                         /\ ~state'.is_dragging
                         /\ state'.keyboard_modifiers = state.keyboard_modifiers
                         /\ value' = value
                    ELSE shell' = <<>> /\ state' = state /\ value' = value
                 \/ ~on_event(e)
          /\ (\E i \in 1..Len(shell') : shell'[i] = OnReleaseMessage) =>
                 /\ Dragging
                 /\ on_release # None
                 /\ \A e \in Events : e.kind \in ReleaseKinds \/ ~on_event(e)]_vars

\* C12 witness: a release has published the configured on-release message
\* and ended the drag.
C12_Witness ==
    /\ status = "Captured"
    /\ on_release = Some(OnReleaseMessage)
    /\ shell = <<OnReleaseMessage>>
    /\ ~state.is_dragging


\* C13: the on_event call of a cycle publishes at most one message, an
\* on_change or the on-release message.
C13_AtMostOneMessage ==
    /\ Len(shell) <= 1
    /\ \A i \in 1..Len(shell) :
           shell[i] = OnReleaseMessage \/ shell[i][1] = "on_change"

\* C13 witness: a press over the bounds has published its one message.
C13_Witness ==
    /\ status = "Captured"
    /\ Over
    /\ Dragging
    /\ Len(shell) = 1
    /\ shell[1] = on_change(value)


\* C14: Slider::new with a range start <= end stores the value it is given
\* when that lies within [start, end], start when it lies below start and end
\* when it lies above end.
C14_NewClamps ==
    [][status = "Unbuilt" =>
          /\ range' = range
          /\ value' = (IF given[1] < range.start THEN range.start
                       ELSE IF given[1] > range.end THEN range.end
                       ELSE given[1])]_vars

\* C14 witness: Slider::new was given a value above the range and stored end.
C14_Witness ==
    /\ status = "None"
    /\ given # None
    /\ given[1] > range.end
    /\ value = range.end


\* The cursor is at or left of the left edge of the bounds.
AtLeft == cursor.available /\ cursor.position.x <= bounds.x
\* The cursor is at or right of the right edge of the bounds.
AtRight == cursor.available /\ cursor.position.x >= bounds.x + bounds.width

\* C15 as stated: locate returns start for every pointer x <= bounds.x and
\* end for every pointer x >= bounds.x + bounds.width, whatever the step, the
\* shift-step and the modifiers.
C15_LocateAtEdges ==
    /\ AtLeft => locate(cursor.position) = Some(range.start)
    /\ AtRight => locate(cursor.position) = Some(range.end)

\* C15 amended: locate returns start for every pointer x <= bounds.x, and end
\* for every other pointer x >= bounds.x + bounds.width, whatever the step,
\* the shift-step and the modifiers: on bounds of width zero a pointer at
\* bounds.x is at both edges and gets start.
C15_LocateAtEdgesLeftFirst ==
    /\ AtLeft => locate(cursor.position) = Some(range.start)
    /\ (AtRight /\ ~AtLeft) => locate(cursor.position) = Some(range.end)

\* C15 witness: a move while dragging with the cursor at or beyond the right
\* edge, and not at the left one, has stored and published end.
C15_Witness ==
    /\ status = "Captured"
    /\ Dragging
    /\ AtRight
    /\ ~AtLeft
    /\ range.start < range.end
    /\ value = range.end
    /\ shell = <<on_change(range.end)>>


\* What on_event does for e in the current state when its quantizers work
\* with the step a: a reference that reads everything on_event reads except
\* shift_step and the shift modifier.
locate_by(a, cursor_position) ==
    IF cursor_position.x <= bounds.x THEN Some(range.start)
    ELSE IF cursor_position.x >= bounds.x + bounds.width THEN Some(range.end)
    ELSE from_f64(Round((cursor_position.x - bounds.x)
                            * (range.end - range.start),
                        bounds.width * a) * a + range.start)
increment_by(a, v) ==
    IF a * (Round(v, a) + 1) > range.end THEN Some(range.end)
    ELSE from_f64(a * (Round(v, a) + 1))
decrement_by(a, v) ==
    IF a * (Round(v, a) - 1) < range.start THEN Some(range.start)
    ELSE from_f64(a * (Round(v, a) - 1))
Captured(option, st) ==
    [value |-> IF option # None THEN option[1] ELSE value,
     shell |-> IF option # None /\ option[1] # value
               THEN <<on_change(option[1])>> ELSE <<>>,
     state |-> st,
     status |-> "Captured"]
Outcome(a, e) ==
    CASE e.kind \in PressKinds /\ Over /\ Command ->
             Captured(default, [state EXCEPT !.is_dragging = FALSE])
      [] e.kind \in PressKinds /\ Over /\ ~Command ->
             Captured(locate_by(a, cursor.position),
                      [state EXCEPT !.is_dragging = TRUE])
      [] e.kind \in ReleaseKinds /\ Dragging ->
             [value |-> value,
              shell |-> IF on_release # None THEN <<on_release[1]>> ELSE <<>>,
              state |-> [state EXCEPT !.is_dragging = FALSE],
              status |-> "Captured"]
      [] e.kind \in MoveKinds /\ Dragging ->
             Captured(IF cursor.available
                      THEN locate_by(a, cursor.position) ELSE None, state)
      [] e.kind = "Keyboard::KeyPressed" /\ Over ->
             Captured(CASE e.key = "ArrowUp" -> increment_by(a, value)
                        [] e.key = "ArrowDown" -> decrement_by(a, value)
                        [] OTHER -> None, state)
      [] e.kind = "Keyboard::ModifiersChanged" ->
             [value |-> value, shell |-> <<>>,
              state |-> [state EXCEPT !.keyboard_modifiers = e.modifiers],
              status |-> "Ignored"]
      [] OTHER ->
             [value |-> value, shell |-> <<>>, state |-> state,
              status |-> "Ignored"]

\* The step did to the stored value, the shell, the State and the status what
\* the record o says.
Did(o) ==
    /\ value' = o.value
    /\ shell' = o.shell
    /\ state' = o.state
    /\ status' = o.status

\* C16: while shift is not held, and also while it is held but no shift-step
\* is configured, every on_event call returns, publishes and stores what it
\* would with the normal step, whatever shift_step is; so two sliders that
\* differ only in shift_step go through the same statuses, messages, stored
\* values and States on every event sequence that never has shift held.
C16_ShiftStepOnlyWithShift ==
    [][(status = "None"
            /\ (~state.keyboard_modifiers.shift \/ shift_step = None)) =>
          \A e \in Events : Did(Outcome(step, e)) \/ ~on_event(e)]_vars

\* C16 witness: with a shift-step configured that differs from the step, and
\* shift not held, a press or a move strictly inside the bounds has located,
\* stored and published a value.
C16_Witness ==
    /\ status = "Captured"
    /\ shift_step # None
    /\ shift_step[1] # step
    /\ ~state.keyboard_modifiers.shift
    /\ Dragging
    /\ StrictlyInside
    /\ shell = <<on_change(value)>>


\* The handle width draw was given, read off the handle quad.
DrawnHandleWidth ==
    CHOOSE hw \in HandleWidths : quads[3].width = hw * quads[3].d

\* C17: draw makes exactly three fill_quad calls: first the rail from the
\* left edge of the bounds to the handle center with rail.colors.0, then the
\* rail from the handle center to the right edge of the bounds with
\* rail.colors.1, then the handle at the computed offset; the rails meet at
\* the handle center and their widths add up to the width of the bounds.
C17_DrawThreeFills ==
    quads # <<>> =>
        /\ Len(quads) = 3
        /\ quads[1].fill = "rail.colors.0"
        /\ quads[2].fill = "rail.colors.1"
        /\ quads[3].fill = "handle.color"
        /\ quads[1].d = quads[3].d /\ quads[2].d = quads[3].d
        /\ \E hw \in HandleWidths : quads[3].width = hw * quads[3].d
        /\ quads[3].d = 2 * offset(DrawnHandleWidth).d
        /\ quads[3].x = bounds.x * quads[3].d + 2 * offset(DrawnHandleWidth).n
        /\ quads[1].x = bounds.x * quads[1].d
        /\ 2 * (quads[1].x + quads[1].width) = 2 * quads[3].x + quads[3].width
        /\ 2 * quads[2].x = 2 * quads[3].x + quads[3].width
        /\ quads[2].x + quads[2].width = (bounds.x + bounds.width) * quads[2].d
        /\ quads[1].width + quads[2].width = bounds.width * quads[1].d

\* C17 witness: draw has filled both rails and the handle of a slider whose
\* value lies strictly between start and end.
C17_Witness ==
    /\ Len(quads) = 3
    /\ range.start < value
    /\ value < range.end
    /\ quads[1].width > 0
    /\ quads[2].width > 0
    /\ quads[3].x > quads[1].x


\* C18: no division by zero in the degenerate configurations: with
\* start >= end draw divides by nothing and its offset is 0 whatever the
\* stored value is, and on bounds of width zero every cursor is at an edge,
\* so that locate returns start or end without dividing by bounds.width.
C18_NoDivisionByZero ==
    /\ quads # <<>> =>
           /\ \A i \in 1..Len(quads) : quads[i].d # 0
           /\ (range.start >= range.end) =>
                  quads[3].x = bounds.x * quads[3].d
    /\ (bounds.width = 0 /\ cursor.available) =>
           /\ AtLeft \/ AtRight
           /\ locate(cursor.position) \in {Some(range.start), Some(range.end)}

\* C18 witness: draw has placed the handle of a slider with start = end,
\* whose stored value is not start, at the left edge of the bounds.
C18_Witness ==
    /\ Len(quads) = 3
    /\ range.start = range.end
    /\ value # range.start
    /\ quads[3].x = bounds.x * quads[3].d


\* C19: a modifiers-changed event stores the modifiers it carries, leaves the
\* stored value and is_dragging as they were and publishes nothing; the stored
\* modifiers change in no other step.
C19_ModifiersFrame ==
    [][/\ status = "None" =>
              \A e \in ModifiersEvents :
                  \/ /\ state'.keyboard_modifiers = e.modifiers
                     /\ state'.is_dragging = state.is_dragging
                     /\ value' = value
                     /\ shell' = <<>>
                  \/ ~on_event(e)
       /\ (state'.keyboard_modifiers # state.keyboard_modifiers) =>
              /\ ~(\E c \in Cursors : cursor_update(c))
              /\ \A e \in Events \ ModifiersEvents : ~on_event(e)]_vars

\* C19 witness: the State holds shift and command, which only a
\* modifiers-changed event stores, during a drag that is still under way.
C19_Witness ==
    /\ state.keyboard_modifiers = [shift |-> TRUE, command |-> TRUE]
    /\ state.is_dragging
    /\ status = "Ignored"
    /\ shell = <<>>


\* C20: after any sequence of events the stored value of a slider built by
\* Slider::new with start <= end and positive steps lies within [start, end].
C20_ValueInRange == InRange(value)


\* The stored value is the payload of the on_change message the application
\* received last, or the value set at construction if it has received none.
ValueIsLastChange ==
    value = (IF history.last # None THEN history.last[1]
             ELSE history.constructed)

\* The step left the stored value as it was, or published an on_change message
\* carrying the value it stored.
ChangePublished ==
    \/ value' = value
    \/ \E i \in 1..Len(shell') : shell'[i] = on_change(value')

\* C21: after any sequence of events the stored value equals the payload of
\* the most recently published on_change message, or the value set at
\* construction when none has been published yet; and the stored value never
\* changes without an on_change message carrying the new value being
\* published in the same event.
C21_ValueIsLastPublished ==
    /\ []ValueIsLastChange
    /\ [][ChangePublished]_vars

\* C21 witness: the application has received an on_change message, its payload
\* differs from the value set at construction and is the stored value, and a
\* later event was ignored and published nothing.
C21_Witness ==
    /\ history.last = Some(value)
    /\ value # history.constructed
    /\ status = "Ignored"
    /\ shell = <<>>

====
